---- MODULE Spec2Model ----
(***************************************************************************)
(* Verification model of the serial bridge of esp-usb-bridge               *)
(* (src/main/serial.c): the UART -> ring buffer -> USB CDC relay, the USB  *)
(* CDC -> UART forwarder and the DTR/RTS -> BOOT/RST signal translator     *)
(* with its one-shot debounce timer.                                       *)
(*                                                                         *)
(* Bytes are modelled by their arrival number at the UART (1, 2, 3, ...),  *)
(* so that order, loss and duplication are visible in every sequence.      *)
(***************************************************************************)
EXTENDS Integers, Sequences, FiniteSets, TLC

(***************************************************************************)
(* Bounds of the model.                                                    *)
(***************************************************************************)
\* number of line-state events in the bounded-input specifications
MaxLineEvents == 3
\* number of bytes the target sends to the UART
MaxBytes == 4
\* largest size of one UART_DATA event
MaxChunk == 2
\* SLAVE_UART_BUF_SIZE, 2 * 1024 in the program
SLAVE_UART_BUF_SIZE == 2
\* length of uart_queue (queue_size, 20 in the program)
UartQueueSize == 2
\* largest chunk usb_sender_task takes (CONFIG_USB_CDC_TX_BUFSIZE)
TxBufSize == 2
\* capacity of the USB CDC transmit FIFO the host drains
HostFifoSize == 1
\* number of bytes the host sends to the USB CDC port
MaxHostBytes == 3
\* largest read of tud_cdc_rx_cb (CONFIG_USB_CDC_RX_BUFSIZE)
RxBufSize == 2
\* number of receive notifications in the forwarder specifications
MaxNotifications == 3

(***************************************************************************)
(* Program constants.                                                      *)
(***************************************************************************)
\* try_cnt budget of usb_sender_task: "++try_cnt < 10"
RetryBudget == 10

\* serial.c:37, capacity of usb_sendbuf
USB_SEND_RINGBUFFER_SIZE == SLAVE_UART_BUF_SIZE

\* serial.c:220, capacity of the UART driver's receive buffer
rx_buffer_size == SLAVE_UART_BUF_SIZE * 2

VARIABLES
    \* ---- shared flags (serial.c:46-47)
    serial_init_finished,
    serial_read_enabled,
    \* ---- signal translator
    gpio_boot,          \* level of GPIO_BOOT (0/1)
    gpio_rst,           \* level of GPIO_RST (0/1)
    timer_armed,        \* state_change_timer is armed (in the timer list)
    aborted,            \* an ESP_ERROR_CHECK failed: the firmware aborted
    ls_pc,              \* position of tud_cdc_line_state_cb: idle, act, rst
    ls_dtr,             \* its arguments while it runs
    ls_rts,
    cb_pc,              \* position of state_change_timer_cb: idle, boot, rst
    \* ---- history of the signal translator (read by the properties only)
    lastInput,          \* most recent handled (dtr, rts), <<>> before any
    prevInput,          \* the handled input before lastInput
    applied,            \* levels of the most recent completed application
    returned,           \* levels when the most recent handler returned
                        \* (before any, the levels start_serial_task set)
    cbRuns,             \* callback dispatches since the most recent arming
    nEvents,            \* handled line-state events (saturating)
    win,                \* progress of the download-mode entry sequence
    fired,              \* the timer callback was active inside the window
    \* ---- UART driver (Byte Transport Port)
    uart_rx,            \* bytes in the driver's receive buffer, oldest first
    uart_queue,         \* uart_queue: events not yet received by the task
    nextByte,           \* arrival number of the next byte from the target
    \* ---- uart_event_task
    ue_pc,              \* wait, reset (between flush and xQueueReset), blocked
    usb_sendbuf,        \* the ring buffer, oldest byte first
    \* ---- usb_sender_task
    snd_pc,             \* recv (xRingbufferReceiveUpTo), loop (the for loop)
    int_buf,
    transferred,
    to_send,
    try_cnt,
    \* ---- USB CDC port (Host Transport Port)
    cdc_tx,             \* bytes in the transmit FIFO, not yet taken by the host
    hostOut,            \* every byte tud_cdc_write accepted, in order
    \* ---- history of the relay (read by the properties only)
    uartRead,           \* every byte uart_read_bytes returned, in order
    pushed,             \* every byte xRingbufferSend accepted, in order
    pushTimeout,        \* some xRingbufferSend has timed out
    discarded,          \* bytes of DATA events handled with reading disabled
    since,              \* what happened after the last handled DATA event:
                        \* "recovery" (an overflow recovery completed),
                        \* "enable" (reading was switched on again),
                        \* "noise" (a line-noise or unknown event)
    \* ---- USB CDC -> UART forwarder (tud_cdc_rx_cb)
    cdc_rx,             \* bytes in the USB CDC receive FIFO, oldest first
    nextHostByte,       \* number of the next byte the host sends
    uart_tx,            \* every byte uart_write_bytes accepted, in order
    \* ---- history of the callbacks (read by the properties only)
    fwdLog,             \* per receive notification: bytes read, bytes
                        \* offered to the UART, bytes the UART accepted
    preInit             \* callbacks invoked before initialization finished

sigVars == <<gpio_boot, gpio_rst, timer_armed, aborted, ls_pc, ls_dtr, ls_rts,
             cb_pc, lastInput, prevInput, applied, returned, cbRuns, nEvents,
             win, fired>>

flagVars == <<serial_init_finished, serial_read_enabled>>

uartVars == <<uart_rx, uart_queue, nextByte>>

taskVars == <<ue_pc, usb_sendbuf, uartRead, pushed, pushTimeout, discarded,
              since>>

senderVars == <<snd_pc, int_buf, transferred, to_send, try_cnt>>

hostVars == <<cdc_tx, hostOut>>

fwdVars == <<cdc_rx, nextHostByte, uart_tx, fwdLog, preInit>>

relayVars == <<uartVars, taskVars, senderVars, hostVars, fwdVars>>

vars == <<flagVars, sigVars, relayVars>>

Min(a, b) == IF a < b THEN a ELSE b

Level(b) == IF b THEN 1 ELSE 0

(***************************************************************************)
(* Signal translator: tud_cdc_line_state_cb and state_change_timer_cb.     *)
(***************************************************************************)

LineStateLevels_Swapped(dtr, rts) ==
    [boot |-> Level(~(~dtr /\ rts)), rst |-> Level(~(dtr /\ ~rts))]

\* serial.c:169-179, the BOOT and RST levels computed from DTR and RTS
LineStateLevels(dtr, rts) ==
    [boot |-> Level(~(dtr /\ ~rts)), rst |-> Level(~(~dtr /\ rts))]

IsDeferred_Never(dtr, rts) == FALSE

\* serial.c:183, "if (dtr & rts)": the levels are left to the timer
IsDeferred(dtr, rts) == dtr /\ rts

esp_timer_stop_NoOp(armed) == armed

\* serial.c:181, esp_timer_stop: the timer is not armed afterwards; the
\* result (and so "was not armed") is ignored.  A callback that was already
\* dispatched is not waited for.
esp_timer_stop(armed) == FALSE

InitGuard_Always(finished) == TRUE

\* serial.c:139 and 161, "if (!serial_init_finished) return": the callback
\* goes on only after start_serial_task has finished
InitGuard(finished) == finished

\* History of the sequence (0,1) [(1,1)] (1,0): a call of the handler.
WinOnCall(dtr, rts) ==
    CASE win = "after01" /\ dtr /\ rts      -> "in11"
      [] win = "after01" /\ dtr /\ ~rts     -> "in10"
      [] win = "after11" /\ dtr /\ ~rts     -> "in10d"
      [] OTHER                              -> "out"

\* History of the sequence: the return of the handler called with (dtr, rts).
WinOnReturn(dtr, rts) ==
    CASE win = "in11"                       -> "after11"
      [] win \in {"in10", "in10d"}          -> "out"
      [] ~dtr /\ rts                        -> "after01"
      [] OTHER                              -> "out"

\* serial.c:159-181: entry of tud_cdc_line_state_cb up to esp_timer_stop.
\* Before initialization it warns and returns.
LineStateCall(dtr, rts) ==
    /\ ~aborted
    /\ ls_pc = "idle"
    /\ IF ~InitGuard(serial_init_finished)
       THEN UNCHANGED vars
       ELSE /\ ls_pc' = "act"
            /\ ls_dtr' = dtr
            /\ ls_rts' = rts
            /\ timer_armed' = esp_timer_stop(timer_armed)
            /\ lastInput' = <<dtr, rts>>
            /\ prevInput' = lastInput
            /\ nEvents' = Min(nEvents + 1, MaxLineEvents)
            /\ win' = WinOnCall(dtr, rts)
            /\ UNCHANGED <<relayVars, flagVars, gpio_boot, gpio_rst, aborted, cb_pc,
                           applied, returned, cbRuns, fired>>

\* serial.c:188: esp_timer_start_once under ESP_ERROR_CHECK; arming an armed
\* timer returns ESP_ERR_INVALID_STATE and the check aborts.
LineStateArm ==
    /\ ~aborted
    /\ ls_pc = "act"
    /\ IsDeferred(ls_dtr, ls_rts)
    /\ IF timer_armed
       THEN /\ aborted' = TRUE
            /\ UNCHANGED <<timer_armed, cbRuns>>
       ELSE /\ timer_armed' = TRUE
            /\ cbRuns' = 0
            /\ UNCHANGED aborted
    /\ ls_pc' = "idle"
    /\ win' = WinOnReturn(ls_dtr, ls_rts)
    /\ fired' = IF win' = "after01" THEN cb_pc # "idle" ELSE fired
    /\ returned' = [boot |-> gpio_boot, rst |-> gpio_rst]
    /\ UNCHANGED <<relayVars, flagVars, gpio_boot, gpio_rst, ls_dtr, ls_rts, cb_pc,
                   lastInput, prevInput, applied, nEvents>>

\* serial.c:192: gpio_set_level(GPIO_BOOT, boot)
LineStateSetBoot ==
    /\ ~aborted
    /\ ls_pc = "act"
    /\ ~IsDeferred(ls_dtr, ls_rts)
    /\ gpio_boot' = LineStateLevels(ls_dtr, ls_rts).boot
    /\ ls_pc' = "rst"
    /\ UNCHANGED <<relayVars, flagVars, gpio_rst, timer_armed, aborted, ls_dtr, ls_rts,
                   cb_pc, lastInput, prevInput, applied, returned, cbRuns, nEvents, win, fired>>

\* serial.c:193-195: gpio_set_level(GPIO_RST, rst) and return
LineStateSetRst ==
    /\ ~aborted
    /\ ls_pc = "rst"
    /\ gpio_rst' = LineStateLevels(ls_dtr, ls_rts).rst
    /\ ls_pc' = "idle"
    /\ applied' = LineStateLevels(ls_dtr, ls_rts)
    /\ returned' = [boot |-> gpio_boot, rst |-> gpio_rst']
    /\ win' = WinOnReturn(ls_dtr, ls_rts)
    /\ fired' = IF win' = "after01" THEN cb_pc # "idle" ELSE fired
    /\ UNCHANGED <<relayVars, flagVars, gpio_boot, timer_armed, aborted, ls_dtr, ls_rts,
                   cb_pc, lastInput, prevInput, cbRuns, nEvents>>

TimerFire_Periodic ==
    /\ ~aborted
    /\ timer_armed
    /\ cb_pc = "idle"
    /\ cb_pc' = "boot"
    /\ cbRuns' = Min(cbRuns + 1, 2)
    /\ fired' = IF win # "out" THEN TRUE ELSE fired
    /\ UNCHANGED <<relayVars, flagVars, gpio_boot, gpio_rst, timer_armed, aborted, ls_pc,
                   ls_dtr, ls_rts, lastInput, prevInput, applied, returned, nEvents, win>>

\* serial.c:188,197: the one-shot timer expires; the timer service takes it
\* off its list and calls state_change_timer_cb in its own task.
TimerFire ==
    /\ ~aborted
    /\ timer_armed
    /\ cb_pc = "idle"
    /\ timer_armed' = FALSE
    /\ cb_pc' = "boot"
    /\ cbRuns' = Min(cbRuns + 1, 2)
    /\ fired' = IF win # "out" THEN TRUE ELSE fired
    /\ UNCHANGED <<relayVars, flagVars, gpio_boot, gpio_rst, aborted, ls_pc, ls_dtr,
                   ls_rts, lastInput, prevInput, applied, returned, nEvents, win>>

\* serial.c:200: gpio_set_level(GPIO_BOOT, true)
TimerCbSetBoot ==
    /\ ~aborted
    /\ cb_pc = "boot"
    /\ gpio_boot' = 1
    /\ cb_pc' = "rst"
    /\ UNCHANGED <<relayVars, flagVars, gpio_rst, timer_armed, aborted, ls_pc, ls_dtr,
                   ls_rts, lastInput, prevInput, applied, returned, cbRuns, nEvents, win, fired>>

\* serial.c:201-202: gpio_set_level(GPIO_RST, true) and return
TimerCbSetRst ==
    /\ ~aborted
    /\ cb_pc = "rst"
    /\ gpio_rst' = 1
    /\ cb_pc' = "idle"
    /\ applied' = [boot |-> 1, rst |-> 1]
    /\ UNCHANGED <<relayVars, flagVars, gpio_boot, timer_armed, aborted, ls_pc, ls_dtr,
                   ls_rts, lastInput, prevInput, returned, cbRuns, nEvents, win,
                   fired>>

(***************************************************************************)
(* UART driver: the source of uart_queue events and of the bytes           *)
(* uart_read_bytes returns.                                                *)
(***************************************************************************)

DataTypes == {"UART_DATA"}

OverflowTypes == {"UART_FIFO_OVF", "UART_BUFFER_FULL"}

NoiseTypes == {"UART_BREAK", "UART_PARITY_ERR", "UART_FRAME_ERR", "OTHER"}

\* An event of uart_queue.  first is the arrival number of the first of the
\* size bytes a UART_DATA event announces (history, the program has no such
\* field).
Event(type, size, first) == [type |-> type, size |-> size, first |-> first]

\* The bytes a UART_DATA event announces.
EventBytes(e) == [i \in 1..e.size |-> e.first + i - 1]

\* xQueueSendFromISR on uart_queue: an event sent to a full queue is lost.
QueuePost(q, e) == IF Len(q) < UartQueueSize THEN Append(q, e) ELSE q

\* The target sends n bytes: the driver stores them in its receive buffer
\* and announces them with UART_DATA(n).
UartReceive(n) ==
    /\ serial_init_finished
    /\ nextByte + n - 1 <= MaxBytes
    /\ Len(uart_rx) + n <= rx_buffer_size
    /\ nextByte' = nextByte + n
    /\ uart_rx' = uart_rx \o [i \in 1..n |-> nextByte + i - 1]
    /\ uart_queue' = QueuePost(uart_queue, Event("UART_DATA", n, nextByte))
    /\ UNCHANGED <<flagVars, sigVars, fwdVars, taskVars, senderVars, hostVars>>

\* The driver posts an event that carries no data: a hardware FIFO overflow
\* or a full receive buffer (the bytes that met it are lost), a break, a
\* parity or frame error, or another event code.
UartFault(type) ==
    /\ serial_init_finished
    /\ Len(uart_queue) < UartQueueSize
    /\ uart_queue' = Append(uart_queue, Event(type, 0, 0))
    /\ UNCHANGED <<flagVars, sigVars, fwdVars, uart_rx, nextByte, taskVars, senderVars,
                   hostVars>>

(***************************************************************************)
(* uart_event_task (serial.c:49-99).                                       *)
(***************************************************************************)

ReadGate_Always(enabled) == TRUE

\* serial.c:57, "if (serial_read_enabled)"
ReadGate(enabled) == enabled

RingbufferSendFits_Partial(buf, n) == Len(buf) < USB_SEND_RINGBUFFER_SIZE

\* serial.c:63, xRingbufferSend on a byte buffer: the n bytes are taken when
\* all of them fit, and none of them otherwise (after the 10 ms wait).
RingbufferSendFits(buf, n) == Len(buf) + n <= USB_SEND_RINGBUFFER_SIZE

\* serial.c:56-70, a UART_DATA event.  uart_read_bytes waits without limit
\* for event.size bytes, so with fewer in the driver the task stays blocked.
UartEventDataCode ==
    /\ serial_init_finished
    /\ ue_pc = "wait"
    /\ uart_queue # <<>>
    /\ Head(uart_queue).type \in DataTypes
    /\ uart_queue' = Tail(uart_queue)
    /\ LET n == Head(uart_queue).size
           read == SubSeq(uart_rx, 1, n)
       IN  IF ~ReadGate(serial_read_enabled)
           THEN UNCHANGED <<uart_rx, ue_pc, usb_sendbuf, uartRead, pushed,
                            pushTimeout>>
           ELSE IF Len(uart_rx) < n
           THEN /\ ue_pc' = "blocked"
                /\ UNCHANGED <<uart_rx, usb_sendbuf, uartRead, pushed,
                               pushTimeout>>
           ELSE /\ uart_rx' = SubSeq(uart_rx, n + 1, Len(uart_rx))
                /\ uartRead' = uartRead \o read
                /\ IF RingbufferSendFits(usb_sendbuf, n)
                   THEN /\ usb_sendbuf' = usb_sendbuf \o read
                        /\ pushed' = pushed \o read
                        /\ UNCHANGED pushTimeout
                   ELSE /\ pushTimeout' = TRUE
                        /\ UNCHANGED <<usb_sendbuf, pushed>>
                /\ UNCHANGED ue_pc
    /\ UNCHANGED <<flagVars, sigVars, fwdVars, nextByte, senderVars, hostVars>>

\* The UART_DATA event without the history of dropped events.
UartEventData == UartEventDataCode /\ UNCHANGED <<discarded, since>>

\* The UART_DATA event with the history of the events handled while reading
\* was off and of what came before this event.
UartEventDataObserved ==
    /\ UartEventDataCode
    /\ since' = {}
    /\ discarded' =
         IF serial_read_enabled THEN discarded
         ELSE discarded \cup
              {Head(uart_queue).first + i - 1 : i \in 1..Head(uart_queue).size}

\* serial.c:71-73 and 76-78, UART_FIFO_OVF or UART_BUFFER_FULL:
\* uart_flush_input
UartEventOverflow ==
    /\ serial_init_finished
    /\ ue_pc = "wait"
    /\ uart_queue # <<>>
    /\ Head(uart_queue).type \in OverflowTypes
    /\ uart_queue' = Tail(uart_queue)
    /\ uart_rx' = <<>>
    /\ ue_pc' = "reset"
    /\ UNCHANGED <<flagVars, sigVars, fwdVars, nextByte, usb_sendbuf, uartRead, pushed,
                   pushTimeout, discarded, since, senderVars, hostVars>>

xQueueReset_Keep(q) == q

\* serial.c:74 and 79, xQueueReset: the queue is empty afterwards
xQueueReset(q) == <<>>

\* serial.c:74-75 and 79-80, xQueueReset(uart_queue) and back to the wait
UartEventQueueResetCode ==
    /\ ue_pc = "reset"
    /\ uart_queue' = xQueueReset(uart_queue)
    /\ ue_pc' = "wait"
    /\ UNCHANGED <<flagVars, sigVars, fwdVars, uart_rx, nextByte, usb_sendbuf, uartRead,
                   pushed, pushTimeout, discarded, senderVars, hostVars>>

UartEventQueueReset == UartEventQueueResetCode /\ UNCHANGED since

\* xQueueReset with the history "an overflow recovery has completed".
UartEventQueueResetObserved ==
    /\ UartEventQueueResetCode
    /\ since' = since \cup {"recovery"}

UartEventNoise_Flush ==
    /\ serial_init_finished
    /\ ue_pc = "wait"
    /\ uart_queue # <<>>
    /\ Head(uart_queue).type \in NoiseTypes
    /\ uart_queue' = Tail(uart_queue)
    /\ uart_rx' = <<>>
    /\ UNCHANGED <<flagVars, sigVars, fwdVars, nextByte, ue_pc, usb_sendbuf,
                   uartRead, pushed, pushTimeout, discarded, senderVars,
                   hostVars>>

\* serial.c:81-93, UART_BREAK, UART_PARITY_ERR, UART_FRAME_ERR and the
\* default case: a warning and nothing else
UartEventNoiseCode ==
    /\ serial_init_finished
    /\ ue_pc = "wait"
    /\ uart_queue # <<>>
    /\ Head(uart_queue).type \in NoiseTypes
    /\ uart_queue' = Tail(uart_queue)
    /\ UNCHANGED <<flagVars, sigVars, fwdVars, uart_rx, nextByte, ue_pc,
                   usb_sendbuf, uartRead, pushed, pushTimeout, discarded,
                   senderVars, hostVars>>

UartEventNoise == UartEventNoiseCode /\ UNCHANGED since

\* The noise event with the history "a noise event was handled".
UartEventNoiseObserved ==
    /\ UartEventNoiseCode
    /\ since' = since \cup {"noise"}

\* serial.c:255-258, serial_set
SerialSetCode(enable) ==
    /\ serial_read_enabled' = enable
    /\ UNCHANGED <<serial_init_finished, sigVars, fwdVars, uartVars, ue_pc, usb_sendbuf,
                   uartRead, pushed, pushTimeout, discarded, senderVars,
                   hostVars>>

SerialSet(enable) == SerialSetCode(enable) /\ UNCHANGED since

\* serial_set with the history "reading was switched on again".
SerialSetObserved(enable) ==
    /\ SerialSetCode(enable)
    /\ since' = IF enable /\ ~serial_read_enabled /\ serial_init_finished
                THEN since \cup {"enable"} ELSE since

(***************************************************************************)
(* usb_sender_task (serial.c:101-135) and the USB CDC port.                *)
(***************************************************************************)

\* tud_cdc_write_available: the free space of the transmit FIFO
WriteAvailable == HostFifoSize - cdc_tx

\* tud_cdc_write: the FIFO takes what fits of the len bytes offered
tud_cdc_write(avail, len) == Min(len, avail)

ChunkDone_AfterFirstWrite(done, received) == done > 0

\* serial.c:113, the for loop runs while "transferred < ringbuf_received"
ChunkDone(done, received) == ~(done < received)

RetryCondition_OneMore(avail, remaining, cnt) ==
    avail < remaining /\ cnt < RetryBudget

\* serial.c:116, "tud_cdc_write_available() < to_send && ++try_cnt < 10"
RetryCondition(avail, remaining, cnt) ==
    avail < remaining /\ cnt + 1 < RetryBudget

Remaining_Unchanged(remaining, t) == remaining

\* serial.c:124, "to_send -= t"
Remaining(remaining, t) == remaining - t

WriteSlice_FromStart(buf, offset, t) == SubSeq(buf, 1, t)

\* serial.c:121, the t bytes tud_cdc_write took from int_buf + transferred
WriteSlice(buf, offset, t) == SubSeq(buf, offset + 1, offset + t)

\* serial.c:104-111, xRingbufferReceiveUpTo: some bytes from the head of the
\* ring buffer, at most TxBufSize and, where the storage wraps around, fewer
\* than are stored; copied to int_buf and returned to the ring buffer.  With
\* nothing stored within 100 ms the task delays and tries again.
SenderReceive ==
    /\ serial_init_finished
    /\ snd_pc = "recv"
    /\ IF usb_sendbuf = <<>>
       THEN UNCHANGED vars
       ELSE \E k \in 1..Min(Len(usb_sendbuf), TxBufSize) :
              /\ int_buf' = SubSeq(usb_sendbuf, 1, k)
              /\ usb_sendbuf' = SubSeq(usb_sendbuf, k + 1, Len(usb_sendbuf))
              /\ transferred' = 0
              /\ to_send' = k
              /\ try_cnt' = 0
              /\ snd_pc' = "loop"
              /\ UNCHANGED <<flagVars, sigVars, fwdVars, uartVars, ue_pc, uartRead,
                             pushed, pushTimeout, discarded, since,
                             hostVars>>

\* serial.c:116-120, the port has less room than to_send and the budget is
\* not used up: flush, wait 100 us, look again
SenderRetry ==
    /\ snd_pc = "loop"
    /\ ~ChunkDone(transferred, Len(int_buf))
    /\ RetryCondition(WriteAvailable, to_send, try_cnt)
    /\ try_cnt' = try_cnt + 1
    /\ UNCHANGED <<flagVars, sigVars, fwdVars, uartVars, taskVars, snd_pc, int_buf,
                   transferred, to_send, hostVars>>

\* serial.c:121-125, tud_cdc_write of the unsent rest
SenderWrite ==
    /\ snd_pc = "loop"
    /\ ~ChunkDone(transferred, Len(int_buf))
    /\ ~RetryCondition(WriteAvailable, to_send, try_cnt)
    /\ LET t == tud_cdc_write(WriteAvailable, to_send)
       IN  /\ hostOut' = hostOut \o WriteSlice(int_buf, transferred, t)
           /\ cdc_tx' = cdc_tx + t
           /\ transferred' = transferred + t
           /\ to_send' = Remaining(to_send, t)
    /\ try_cnt' = 0
    /\ UNCHANGED <<flagVars, sigVars, fwdVars, uartVars, taskVars, snd_pc, int_buf>>

\* serial.c:113,127, the loop ends with the chunk written: flush once and
\* take the next chunk
SenderFlush ==
    /\ snd_pc = "loop"
    /\ ChunkDone(transferred, Len(int_buf))
    /\ snd_pc' = "recv"
    /\ UNCHANGED <<flagVars, sigVars, fwdVars, uartVars, taskVars, int_buf, transferred,
                   to_send, try_cnt, hostVars>>

\* The host takes k bytes out of the transmit FIFO.
HostDrain(k) ==
    /\ k <= cdc_tx
    /\ cdc_tx' = cdc_tx - k
    /\ UNCHANGED <<flagVars, sigVars, fwdVars, uartVars, taskVars, senderVars, hostOut>>

(***************************************************************************)
(* USB CDC -> UART forwarder: tud_cdc_rx_cb (serial.c:137-157), and the    *)
(* callbacks with the history of their calls before initialization.        *)
(***************************************************************************)

\* The host sends n bytes; they wait in the USB CDC receive FIFO.
HostSend(n) ==
    /\ nextHostByte + n - 1 <= MaxHostBytes
    /\ cdc_rx' = cdc_rx \o [i \in 1..n |-> nextHostByte + i - 1]
    /\ nextHostByte' = nextHostByte + n
    /\ UNCHANGED <<flagVars, sigVars, uartVars, taskVars, senderVars, hostVars,
                   uart_tx, fwdLog, preInit>>

\* serial.c:146, tud_cdc_n_read: the oldest bytes of the receive FIFO, at
\* most CONFIG_USB_CDC_RX_BUFSIZE of them
tud_cdc_n_read(fifo) == SubSeq(fifo, 1, Min(Len(fifo), RxBufSize))

UartWritten_Tail(buf, t) == SubSeq(buf, Len(buf) - t + 1, Len(buf))

\* serial.c:150, the bytes of buf that uart_write_bytes has sent when it
\* returns t
UartWritten(buf, t) == SubSeq(buf, 1, t)

\* serial.c:137-157, tud_cdc_rx_cb, called by the USB task between two
\* line-state callbacks.  Before initialization it warns and returns.  After
\* it, it reads once from the port and, with at least one byte read, calls
\* uart_write_bytes once with all of them; the result t is only compared and
\* logged.
RxCallback ==
    /\ ~aborted
    /\ ls_pc = "idle"
    /\ InitGuard(serial_init_finished) => Len(fwdLog) < MaxNotifications
    /\ IF ~InitGuard(serial_init_finished)
       THEN /\ preInit' = preInit \cup {"tud_cdc_rx_cb"}
            /\ UNCHANGED <<cdc_rx, uart_tx, fwdLog>>
       ELSE LET buf == tud_cdc_n_read(cdc_rx)
                rx_size == Len(buf)
            IN  /\ cdc_rx' = SubSeq(cdc_rx, rx_size + 1, Len(cdc_rx))
                /\ IF rx_size > 0
                   THEN \E t \in 0..rx_size :
                          /\ uart_tx' = uart_tx \o UartWritten(buf, t)
                          /\ fwdLog' = Append(fwdLog,
                                 [read |-> buf, offered |-> <<buf>>,
                                  written |-> UartWritten(buf, t)])
                   ELSE /\ UNCHANGED uart_tx
                        /\ fwdLog' = Append(fwdLog,
                               [read |-> buf, offered |-> <<>>,
                                written |-> <<>>])
                /\ UNCHANGED preInit
    /\ UNCHANGED <<flagVars, sigVars, uartVars, taskVars, senderVars, hostVars,
                   nextHostByte>>

\* A line-state event while fewer than MaxLineEvents have been handled.
LineStateCallBounded(dtr, rts) ==
    /\ nEvents < MaxLineEvents
    /\ LineStateCall(dtr, rts)

\* tud_cdc_line_state_cb with the history of its calls before
\* initialization; after initialization, the first line-state event.
LineStateCallObserved(dtr, rts) ==
    IF InitGuard(serial_init_finished)
    THEN nEvents = 0 /\ LineStateCall(dtr, rts)
    ELSE /\ ~aborted
         /\ ls_pc = "idle"
         /\ preInit' = preInit \cup {"tud_cdc_line_state_cb"}
         /\ UNCHANGED <<flagVars, sigVars, uartVars, taskVars, senderVars,
                        hostVars, cdc_rx, nextHostByte, uart_tx, fwdLog>>

(***************************************************************************)
(* Lifecycle.                                                              *)
(***************************************************************************)

\* serial.c:213-253, start_serial_task with a successful port and ring
\* buffer initialization: both lines high, timer created (not armed), tasks
\* created, then both flags set.
StartSerialTask ==
    /\ ~serial_init_finished
    /\ gpio_rst' = 1
    /\ gpio_boot' = 1
    /\ timer_armed' = FALSE
    /\ applied' = [boot |-> 1, rst |-> 1]
    /\ returned' = [boot |-> 1, rst |-> 1]
    /\ serial_init_finished' = TRUE
    /\ serial_read_enabled' = TRUE
    /\ UNCHANGED <<relayVars, aborted, ls_pc, ls_dtr, ls_rts, cb_pc,
                   lastInput, prevInput, cbRuns, nEvents, win, fired>>

\* serial.c:44-47 and the pins before start_serial_task drives them
Init ==
    /\ serial_init_finished = FALSE
    /\ serial_read_enabled = FALSE
    /\ gpio_boot \in {0, 1}
    /\ gpio_rst \in {0, 1}
    /\ timer_armed = FALSE
    /\ aborted = FALSE
    /\ ls_pc = "idle"
    /\ ls_dtr = FALSE
    /\ ls_rts = FALSE
    /\ cb_pc = "idle"
    /\ lastInput = <<>>
    /\ prevInput = <<>>
    /\ applied = [boot |-> gpio_boot, rst |-> gpio_rst]
    /\ returned = [boot |-> gpio_boot, rst |-> gpio_rst]
    /\ cbRuns = 0
    /\ nEvents = 0
    /\ win = "out"
    /\ fired = FALSE
    /\ uart_rx = <<>>
    /\ uart_queue = <<>>
    /\ nextByte = 1
    /\ ue_pc = "wait"
    /\ usb_sendbuf = <<>>
    /\ snd_pc = "recv"
    /\ int_buf = <<>>
    /\ transferred = 0
    /\ to_send = 0
    /\ try_cnt = 0
    /\ cdc_tx = 0
    /\ hostOut = <<>>
    /\ uartRead = <<>>
    /\ pushed = <<>>
    /\ pushTimeout = FALSE
    /\ discarded = {}
    /\ since = {}
    /\ cdc_rx = <<>>
    /\ nextHostByte = 1
    /\ uart_tx = <<>>
    /\ fwdLog = <<>>
    /\ preInit = {}

LineStateTask == LineStateArm \/ LineStateSetBoot \/ LineStateSetRst

TimerService == TimerFire \/ TimerCbSetBoot \/ TimerCbSetRst

SignalNext ==
    \/ StartSerialTask
    \/ \E dtr \in BOOLEAN, rts \in BOOLEAN : LineStateCall(dtr, rts)
    \/ LineStateTask
    \/ TimerService

\* The signal translator under any sequence of line-state events.
SignalSpec == Init /\ [][SignalNext]_vars

UartEventTask == UartEventData \/ UartEventOverflow \/ UartEventQueueReset

UartEventTaskObserved ==
    UartEventDataObserved \/ UartEventOverflow \/ UartEventQueueResetObserved

SenderTask == SenderReceive \/ SenderRetry \/ SenderWrite \/ SenderFlush

Host == \E k \in 1..HostFifoSize : HostDrain(k)

Next ==
    \/ StartSerialTask
    \/ \E n \in 1..MaxChunk : UartReceive(n)
    \/ \E t \in OverflowTypes : UartFault(t)
    \/ \E e \in BOOLEAN : SerialSet(e)
    \/ UartEventTask
    \/ SenderTask
    \/ Host

\* The relay under any UART data and overflow events, any read-enable
\* toggling and any host.
Spec == Init /\ [][Next]_vars

ObservedNext ==
    \/ StartSerialTask
    \/ \E n \in 1..MaxChunk : UartReceive(n)
    \/ \E t \in OverflowTypes : UartFault(t)
    \/ \E e \in BOOLEAN : SerialSetObserved(e)
    \/ UartEventTaskObserved
    \/ SenderTask
    \/ Host

\* The same relay with the history variables discarded and since kept.
ObservedSpec == Init /\ [][ObservedNext]_vars

DataNext ==
    \/ StartSerialTask
    \/ \E n \in 1..MaxChunk : UartReceive(n)
    \/ \E e \in BOOLEAN : SerialSetObserved(e)
    \/ UartEventDataObserved
    \/ SenderTask
    \/ Host

\* The relay under UART_DATA events only, where both tasks keep running and
\* the host keeps taking what is in the transmit FIFO.
FairSpec ==
    /\ Init
    /\ [][DataNext]_vars
    /\ WF_vars(UartEventDataObserved)
    /\ WF_vars(SenderTask)
    /\ WF_vars(Host)

\* The relay under UART_DATA events only, where both tasks keep running and
\* the host may stop reading.
StallSpec ==
    /\ Init
    /\ [][DataNext]_vars
    /\ WF_vars(UartEventDataObserved)
    /\ WF_vars(SenderTask)

\* The relay where uart_event_task keeps running, while usb_sender_task and
\* the host may stop at any point.
ProducerSpec ==
    /\ Init
    /\ [][Next]_vars
    /\ WF_vars(UartEventTask)

NoiseNext ==
    \/ StartSerialTask
    \/ \E n \in 1..MaxChunk : UartReceive(n)
    \/ \E t \in NoiseTypes : UartFault(t)
    \/ \E e \in BOOLEAN : SerialSet(e)
    \/ UartEventData
    \/ UartEventNoiseObserved
    \/ SenderTask
    \/ Host

\* The relay under UART data and line-noise or unknown events, with the
\* history of the noise events handled.
NoiseSpec == Init /\ [][NoiseNext]_vars

FullNext ==
    \/ Next
    \/ \E t \in NoiseTypes : UartFault(t)
    \/ UartEventNoise

\* The relay with the line-noise and unknown UART events as well.
FullSpec == Init /\ [][FullNext]_vars

SignalFairNext ==
    \/ StartSerialTask
    \/ \E dtr \in BOOLEAN, rts \in BOOLEAN : LineStateCallBounded(dtr, rts)
    \/ LineStateTask
    \/ TimerService

\* The signal translator under finitely many line-state events: a handler
\* that was called runs on, and the timer service serves an armed timer and
\* runs its callback on.
SignalFairSpec ==
    /\ Init
    /\ [][SignalFairNext]_vars
    /\ WF_vars(LineStateTask)
    /\ WF_vars(TimerService)

CallbackNext ==
    \/ StartSerialTask
    \/ \E n \in 1..MaxHostBytes : HostSend(n)
    \/ RxCallback
    \/ \E dtr \in BOOLEAN, rts \in BOOLEAN : LineStateCallObserved(dtr, rts)
    \/ LineStateTask
    \/ TimerService

\* The callbacks of the USB task before initialization and the first of
\* them after it, with the timer service.
CallbackSpec == Init /\ [][CallbackNext]_vars

ForwardNext ==
    \/ StartSerialTask
    \/ \E n \in 1..MaxHostBytes : HostSend(n)
    \/ RxCallback

\* The forwarder under any bytes of the host and any receive notifications.
ForwardSpec == Init /\ [][ForwardNext]_vars

(***************************************************************************)
(* Properties of the signal translator.                                    *)
(***************************************************************************)

\* C4: between the return of the (DTR=0,RTS=1) handler and the return of the
\* following (DTR=1,RTS=0) handler, with or without one (1,1) event between
\* them, and as long as the debounce timer has not fired in between, the
\* levels are never BOOT=1 and RST=1 at once, each gpio_set_level being a
\* step of its own.
C4_DownloadModeEntry ==
    (win # "out" /\ ~fired) => ~(gpio_boot = 1 /\ gpio_rst = 1)

\* The (1,0) handler after a debounced (1,1) has written BOOT=0 and is about
\* to write RST=1.
C4_Witness ==
    /\ win = "in10d"
    /\ ls_pc = "rst"
    /\ ~fired
    /\ gpio_boot = 0
    /\ gpio_rst = 0

\* C5: once no further line-state event comes after a handled (1,1), the
\* timer fires, its callback runs exactly once for that arming, and the
\* levels are and stay BOOT=1, RST=1.
C5_Sustained11AppliedOnce ==
    <>[]((lastInput = <<TRUE, TRUE>> /\ ls_pc = "idle") =>
            /\ gpio_boot = 1
            /\ gpio_rst = 1
            /\ ~timer_armed
            /\ cb_pc = "idle"
            /\ cbRuns = 1)

\* After (0,1) then (1,1) the callback of that arming has run once and has
\* raised RST from 0.
C5_Witness ==
    /\ lastInput = <<TRUE, TRUE>>
    /\ prevInput = <<FALSE, TRUE>>
    /\ ls_pc = "idle"
    /\ cb_pc = "idle"
    /\ ~timer_armed
    /\ cbRuns = 1
    /\ gpio_boot = 1
    /\ gpio_rst = 1

\* C6: the firmware never aborts in ESP_ERROR_CHECK(esp_timer_start_once):
\* when a handler decides its action the timer is not armed, whatever the
\* events before it.
C6_AtMostOneTimerOutstanding ==
    /\ ~aborted
    /\ (ls_pc = "act" => ~timer_armed)

\* A second (1,1) in a row is about to arm the timer, which the first had
\* armed and which has not fired since.
C6_Witness ==
    /\ ls_pc = "act"
    /\ lastInput = <<TRUE, TRUE>>
    /\ prevInput = <<TRUE, TRUE>>
    /\ cbRuns = 0
    /\ cb_pc = "idle"
    /\ ~timer_armed

\* The table value of an input; <<>> is "no input yet" (the initial levels).
TableLevels(input) ==
    IF input = <<>> THEN [boot |-> 1, rst |-> 1]
    ELSE LineStateLevels(input[1], input[2])

\* C7: outside the handler and the timer callback, either the timer is
\* pending, the last input was (1,1) and the levels are those last applied,
\* or no timer is pending and the levels are the table value of the last
\* input.
C7_SignalStateInvariant ==
    (serial_init_finished /\ ~aborted /\ ls_pc = "idle" /\ cb_pc = "idle") =>
        \/ /\ timer_armed
           /\ lastInput = <<TRUE, TRUE>>
           /\ [boot |-> gpio_boot, rst |-> gpio_rst] = applied
        \/ /\ ~timer_armed
           /\ [boot |-> gpio_boot, rst |-> gpio_rst] = TableLevels(lastInput)

(***************************************************************************)
(* Properties of the relay.                                                *)
(***************************************************************************)

RECURSIVE IsSubseq(_, _)
\* a is b with some elements left out
IsSubseq(a, b) ==
    IF a = <<>> THEN TRUE
    ELSE IF b = <<>> THEN FALSE
    ELSE IF Head(a) = Head(b) THEN IsSubseq(Tail(a), Tail(b))
    ELSE IsSubseq(a, Tail(b))

IsPrefix(a, b) == Len(a) <= Len(b) /\ SubSeq(b, 1, Len(a)) = a

NoDuplicate(a) == \A i, j \in 1..Len(a) : a[i] = a[j] => i = j

\* C1: the bytes written to the USB CDC port are the bytes read from the
\* UART with some left out, none twice and none out of order, and they are
\* a prefix of the bytes read as long as no xRingbufferSend has timed out.
C1_UartToHostOrder ==
    /\ IsSubseq(hostOut, uartRead)
    /\ NoDuplicate(hostOut)
    /\ (~pushTimeout => IsPrefix(hostOut, uartRead))

\* A push has timed out and the host has got the bytes around the gap.
C1_Witness ==
    /\ pushTimeout
    /\ Len(hostOut) >= 2
    /\ ~IsPrefix(hostOut, uartRead)

\* C2: when the target sends no more bytes than the ring buffer holds, every
\* byte read from the UART is in the end written to the USB CDC port, in
\* order, the host taking only HostFifoSize bytes at a time.
C2_EventualDelivery ==
    <>[]((nextByte - 1 <= USB_SEND_RINGBUFFER_SIZE) => hostOut = uartRead)

\* A burst as large as the ring buffer has arrived at the host in full.
C2_Witness ==
    /\ nextByte - 1 = USB_SEND_RINGBUFFER_SIZE
    /\ Len(uartRead) = USB_SEND_RINGBUFFER_SIZE
    /\ hostOut = uartRead
    /\ snd_pc = "recv"

\* C3: the sender task always leaves the write loop of a chunk it has taken
\* and comes back to xRingbufferReceiveUpTo, whatever the host does.
C3_SenderLeavesChunk == (snd_pc = "loop") ~> (snd_pc = "recv")

\* uart_event_task takes a UART_DATA event from uart_queue in this step.
DataEventStep ==
    /\ ue_pc = "wait"
    /\ uart_queue # <<>>
    /\ Head(uart_queue).type \in DataTypes
    /\ uart_queue' = Tail(uart_queue)

\* The part of int_buf that usb_sender_task has still to write.
Unsent ==
    IF snd_pc = "loop" THEN SubSeq(int_buf, transferred + 1, Len(int_buf))
    ELSE <<>>

\* C8: a UART_DATA event handled while serial_read_enabled is false puts
\* nothing into the ring buffer; the bytes that are in the ring buffer are
\* neither lost nor reordered on their way to the host, and they all get
\* there.
C8_ReadEnableGating ==
    /\ [][(DataEventStep /\ ~serial_read_enabled) =>
            (usb_sendbuf' = usb_sendbuf /\ pushed' = pushed)]_vars
    /\ [](pushed = hostOut \o Unsent \o usb_sendbuf)
    /\ <>[](hostOut = pushed)

\* Reading is off, a DATA event was dropped, and the sender is in the
\* middle of a chunk that was queued before.
C8_Witness ==
    /\ ~serial_read_enabled
    /\ serial_init_finished
    /\ discarded # {}
    /\ snd_pc = "loop"
    /\ transferred > 0
    /\ to_send > 0

\* C9: no byte of a UART_DATA event handled while serial_read_enabled was
\* false is ever written to the host, and the first UART_DATA event handled
\* after reading was switched on again reads the bytes it announced.
C9_DisabledBytesDiscarded ==
    /\ [](\A i \in 1..Len(hostOut) : hostOut[i] \notin discarded)
    /\ [][(DataEventStep /\ serial_read_enabled /\ "enable" \in since) =>
            uartRead' = uartRead \o EventBytes(Head(uart_queue))]_vars

\* C10: on UART_FIFO_OVF and UART_BUFFER_FULL the task flushes the UART
\* input, then resets uart_queue, with the ring buffer as it was, and waits
\* for events again; the next UART_DATA event is handled as usual, its bytes
\* read and (where they fit) pushed; the task never blocks in uart_read_bytes.
C10_OverflowRecovery ==
    /\ [][(ue_pc = "wait" /\ ue_pc' = "reset") =>
            (uart_rx' = <<>> /\ usb_sendbuf' = usb_sendbuf)]_vars
    /\ [][(ue_pc = "reset" /\ ue_pc' # "reset") =>
            (uart_queue' = <<>> /\ usb_sendbuf' = usb_sendbuf
             /\ ue_pc' = "wait")]_vars
    /\ [][(DataEventStep /\ serial_read_enabled /\ "recovery" \in since) =>
            /\ uartRead' = uartRead \o EventBytes(Head(uart_queue))
            /\ RingbufferSendFits(usb_sendbuf, Head(uart_queue).size) =>
                 usb_sendbuf' = usb_sendbuf \o EventBytes(Head(uart_queue))]_vars
    /\ [](ue_pc # "blocked")

\* C13: when tud_cdc_line_state_cb has handled (0,0), (0,1) or (1,0) and
\* handles the same pair again as the next event, no step of the second
\* handling changes a GPIO level, and at its return the timer is not armed
\* and BOOT and RST are what they were at the return of the first handling.
C13_ImmediateIdempotent ==
    /\ [][(/\ lastInput = prevInput
           /\ ~(ls_dtr /\ ls_rts)
           /\ ls_pc \in {"act", "rst"}
           /\ ls_pc' # ls_pc) =>
            (gpio_boot' = gpio_boot /\ gpio_rst' = gpio_rst)]_vars
    /\ [][(/\ lastInput = prevInput
           /\ ls_pc = "rst"
           /\ ls_pc' = "idle") =>
            /\ ~timer_armed'
            /\ gpio_boot' = returned.boot
            /\ gpio_rst' = returned.rst]_vars

\* The levels the table gives for the inputs that are applied at once.
ImmediateTable(dtr, rts) ==
    CASE ~dtr /\ ~rts -> [boot |-> 1, rst |-> 1]
      [] ~dtr /\ rts  -> [boot |-> 1, rst |-> 0]
      [] dtr /\ ~rts  -> [boot |-> 0, rst |-> 1]

\* C14: every handler first cancels a pending timer and writes no level
\* doing so; for (0,0), (0,1) and (1,0) it then writes BOOT and RST as the
\* table says, arms no timer and returns; for (1,1) it writes no level, arms
\* the one-shot timer (which succeeds) and returns.
C14_TransitionTable ==
    /\ [][(ls_pc = "idle" /\ ls_pc' = "act") =>
            /\ ~timer_armed'
            /\ gpio_boot' = gpio_boot
            /\ gpio_rst' = gpio_rst]_vars
    /\ [][(ls_pc = "act" /\ ls_pc' # "act") =>
            IF ls_dtr /\ ls_rts
            THEN /\ ls_pc' = "idle"
                 /\ timer_armed'
                 /\ ~aborted'
                 /\ gpio_boot' = gpio_boot
                 /\ gpio_rst' = gpio_rst
            ELSE /\ ls_pc' = "rst"
                 /\ ~timer_armed'
                 /\ gpio_boot' = ImmediateTable(ls_dtr, ls_rts).boot
                 /\ gpio_rst' = gpio_rst]_vars
    /\ [][(ls_pc = "rst" /\ ls_pc' # "rst") =>
            /\ ls_pc' = "idle"
            /\ ~timer_armed'
            /\ gpio_rst' = ImmediateTable(ls_dtr, ls_rts).rst
            /\ gpio_boot' = gpio_boot]_vars

\* The (1,1) handler has returned after a (0,1): the timer is armed and the
\* levels are still BOOT=1, RST=0.
C14_Witness ==
    /\ ls_pc = "idle"
    /\ cb_pc = "idle"
    /\ lastInput = <<TRUE, TRUE>>
    /\ prevInput = <<FALSE, TRUE>>
    /\ timer_armed
    /\ gpio_boot = 1
    /\ gpio_rst = 0

\* C20: once a handler for (0,0), (0,1) or (1,0) has written its levels and
\* returned, state_change_timer_cb of an earlier (1,1) writes nothing any
\* more, whatever the interleaving of the timer service and the handler was;
\* when nothing is in progress the levels are those of this last input.
C20_SupersededNeverApplied ==
    /\ [][(/\ ls_pc = "idle"
           /\ lastInput \notin {<<>>, <<TRUE, TRUE>>}
           /\ cb_pc # "idle") =>
            (gpio_boot' = gpio_boot /\ gpio_rst' = gpio_rst /\ cb_pc' = cb_pc)]_vars
    /\ []((/\ serial_init_finished
           /\ ls_pc = "idle"
           /\ cb_pc = "idle"
           /\ lastInput \notin {<<>>, <<TRUE, TRUE>>}) =>
            [boot |-> gpio_boot, rst |-> gpio_rst]
               = ImmediateTable(lastInput[1], lastInput[2]))

(***************************************************************************)
(* Properties of the callbacks of the USB task.                            *)
(***************************************************************************)

\* C11: tud_cdc_rx_cb and tud_cdc_line_state_cb called while
\* serial_init_finished is false change nothing: no read from the USB CDC
\* port, no write to the UART, the timer neither stopped nor armed, no GPIO
\* level written; before initialization the bridge is in its first state.
C11_PreInitCallbacksNoOp ==
    /\ [][preInit' # preInit =>
            UNCHANGED <<flagVars, sigVars, uartVars, taskVars, senderVars,
                        hostVars, cdc_rx, nextHostByte, uart_tx, fwdLog>>]_vars
    /\ [](~serial_init_finished =>
            /\ ls_pc = "idle"
            /\ cb_pc = "idle"
            /\ ~timer_armed
            /\ lastInput = <<>>
            /\ [boot |-> gpio_boot, rst |-> gpio_rst] = applied
            /\ uart_tx = <<>>
            /\ fwdLog = <<>>
            /\ Len(cdc_rx) = nextHostByte - 1)

\* Both callbacks were called before initialization, with bytes of the host
\* waiting and the BOOT pin low.
C11_Witness ==
    /\ ~serial_init_finished
    /\ preInit = {"tud_cdc_rx_cb", "tud_cdc_line_state_cb"}
    /\ cdc_rx # <<>>
    /\ gpio_boot = 0

(***************************************************************************)
(* Further properties of the relay.                                        *)
(***************************************************************************)

\* C12: a UART_DATA event whose bytes do not fit into the ring buffer leaves
\* the ring buffer as it was (none of the bytes is stored), its bytes are
\* taken from the UART and not offered again, and uart_event_task waits for
\* the next event; the ring buffer never holds more than its size, and the
\* task is at its event wait again and again also when usb_sender_task
\* takes nothing out.
C12_ProducerNeverStalls ==
    /\ [][(/\ DataEventStep
           /\ serial_read_enabled
           /\ Len(usb_sendbuf) + Head(uart_queue).size
                  > USB_SEND_RINGBUFFER_SIZE) =>
            /\ usb_sendbuf' = usb_sendbuf
            /\ pushed' = pushed
            /\ pushTimeout'
            /\ uart_rx' = SubSeq(uart_rx, Head(uart_queue).size + 1,
                                 Len(uart_rx))
            /\ ue_pc' = "wait"]_vars
    /\ [](Len(usb_sendbuf) <= USB_SEND_RINGBUFFER_SIZE)
    /\ []<>(ue_pc = "wait")

\* usb_sender_task has taken nothing, the ring buffer is full, a chunk was
\* dropped, and uart_event_task waits for events.
C12_Witness ==
    /\ pushTimeout
    /\ ue_pc = "wait"
    /\ Len(usb_sendbuf) = USB_SEND_RINGBUFFER_SIZE
    /\ snd_pc = "recv"
    /\ hostOut = <<>>
    /\ Len(uartRead) > Len(pushed)

\* C16: usb_sender_task retries (flush, delay) only while the port has less
\* room than to_send, and fewer than RetryBudget times in a row; then, or as
\* soon as there is room, it calls tud_cdc_write for the whole unsent rest,
\* whatever the room is; every write sets try_cnt back to 0; the loop is
\* left, with the final flush, only when the whole chunk is written.
C16_SenderRetryBudget ==
    /\ [](try_cnt \in 0..(RetryBudget - 1))
    /\ [][try_cnt' = try_cnt + 1 =>
            /\ snd_pc = "loop"
            /\ WriteAvailable < to_send
            /\ UNCHANGED <<snd_pc, int_buf, transferred, to_send, hostVars>>]_vars
    /\ [][(/\ snd_pc = "loop"
           /\ snd_pc' = "loop"
           /\ (transferred' # transferred \/ try_cnt' < try_cnt)) =>
            LET t == Min(to_send, WriteAvailable)
            IN  /\ WriteAvailable >= to_send \/ try_cnt = RetryBudget - 1
                /\ hostOut' = hostOut
                       \o SubSeq(int_buf, transferred + 1, transferred + t)
                /\ transferred' = transferred + t
                /\ to_send' = to_send - t
                /\ try_cnt' = 0]_vars
    /\ [][(/\ snd_pc = "loop"
           /\ try_cnt = RetryBudget - 1
           /\ senderVars' # senderVars) =>
            (snd_pc' = "loop" /\ try_cnt' = 0)]_vars
    /\ [][(snd_pc = "loop" /\ snd_pc' = "recv") =>
            /\ transferred = Len(int_buf)
            /\ to_send = 0
            /\ UNCHANGED hostVars]_vars

\* The budget is used up in the middle of a chunk with the port still full:
\* the next step is a write attempt.
C16_Witness ==
    /\ snd_pc = "loop"
    /\ try_cnt = RetryBudget - 1
    /\ transferred > 0
    /\ to_send > 0
    /\ WriteAvailable < to_send

RECURSIVE QueuedBytes(_)
\* The number of bytes the UART_DATA events of a queue announce.
QueuedBytes(q) ==
    IF q = <<>> THEN 0 ELSE Head(q).size + QueuedBytes(Tail(q))

\* C17: a UART_DATA(n) event handled with serial_read_enabled set finds at
\* least n bytes in the driver's receive buffer, so uart_read_bytes returns
\* n bytes at once and the task never stays in it; while the task waits for
\* events, the buffer holds at least the bytes that the queued events
\* announce.
C17_UartReadNeverBlocks ==
    /\ [](ue_pc # "blocked")
    /\ [](ue_pc = "wait" => Len(uart_rx) >= QueuedBytes(uart_queue))
    /\ [][(DataEventStep /\ serial_read_enabled) =>
            /\ Len(uart_rx) >= Head(uart_queue).size
            /\ uartRead' = uartRead
                   \o SubSeq(uart_rx, 1, Head(uart_queue).size)
            /\ ue_pc' = "wait"]_vars

\* After a flush that removed byte 1, a UART_DATA event was handled with
\* reading on, and bytes whose event was lost or dropped are left over.
C17_Witness ==
    /\ ue_pc = "wait"
    /\ serial_read_enabled
    /\ uartRead # <<>>
    /\ uartRead[1] # 1
    /\ uart_queue = <<>>
    /\ uart_rx # <<>>

\* C18: when uart_event_task takes a UART_BREAK, UART_PARITY_ERR,
\* UART_FRAME_ERR or unknown event from uart_queue, nothing but the removal
\* of that event happens: the events behind it, the ring buffer, the
\* driver's receive buffer, serial_read_enabled and the GPIO levels are as
\* before, and the task waits for the next event.
C18_NoiseEventsNoEffect ==
    [][(/\ ue_pc = "wait"
        /\ uart_queue # <<>>
        /\ Head(uart_queue).type \in NoiseTypes
        /\ ~IsPrefix(uart_queue, uart_queue')) =>
         /\ uart_queue' = Tail(uart_queue)
         /\ UNCHANGED <<usb_sendbuf, uart_rx, serial_read_enabled, gpio_boot,
                        gpio_rst, ue_pc, uartRead, pushed, senderVars,
                        hostVars>>]_vars

\* A noise event was handled while bytes were in the driver's receive
\* buffer and in the ring buffer and a UART_DATA event was queued behind it.
C18_Witness ==
    /\ "noise" \in since
    /\ usb_sendbuf # <<>>
    /\ uart_rx # <<>>
    /\ uart_queue # <<>>
    /\ Head(uart_queue).type \in DataTypes
    /\ uartRead # <<>>
    /\ Len(uartRead) + Len(uart_rx) = nextByte - 1

\* The last n elements of a sequence.
LastN(a, n) == SubSeq(a, Len(a) - n + 1, Len(a))

\* C19: in the write loop of a chunk of N bytes, transferred + to_send = N
\* and 0 <= transferred <= N, and the bytes written to the host for it so
\* far are its first transferred bytes, once each and in order; each write
\* adds the bytes at offset transferred; the next chunk is taken only when
\* all N bytes were written.
C19_ChunkAccounting ==
    /\ [](/\ transferred + to_send = Len(int_buf)
          /\ transferred \in 0..Len(int_buf)
          /\ transferred <= Len(hostOut)
          /\ LastN(hostOut, transferred) = SubSeq(int_buf, 1, transferred))
    /\ [](snd_pc = "recv" => transferred = Len(int_buf))
    /\ [][hostOut' # hostOut =>
            /\ snd_pc = "loop"
            /\ transferred' > transferred
            /\ hostOut' = hostOut
                   \o SubSeq(int_buf, transferred + 1, transferred')
            /\ int_buf' = int_buf]_vars
    /\ [][int_buf' # int_buf =>
            (transferred = Len(int_buf) /\ transferred' = 0)]_vars

\* A first chunk was written in full and the second chunk in part.
C19_Witness ==
    /\ snd_pc = "loop"
    /\ Len(int_buf) = 2
    /\ transferred = 1
    /\ to_send = 1
    /\ Len(hostOut) = 3

(***************************************************************************)
(* Properties of the USB CDC -> UART forwarder.                            *)
(***************************************************************************)

RECURSIVE LogConcat(_, _)
\* The field f of the entries of a log, one after the other.
LogConcat(log, f) ==
    IF log = <<>> THEN <<>>
    ELSE LogConcat(SubSeq(log, 1, Len(log) - 1), f) \o log[Len(log)][f]

\* C15: each receive notification after initialization calls
\* uart_write_bytes exactly once with all the bytes it read, and not at all
\* when it read none; the UART gets a prefix of them; the bytes written to
\* the UART are these prefixes in the order of the notifications, and a byte
\* the UART did not take is neither written later nor put back into the
\* receive FIFO.
C15_HostToUartForwarding ==
    /\ \A i \in 1..Len(fwdLog) :
          /\ fwdLog[i].offered =
                IF fwdLog[i].read = <<>> THEN <<>> ELSE <<fwdLog[i].read>>
          /\ IsPrefix(fwdLog[i].written, fwdLog[i].read)
    /\ uart_tx = LogConcat(fwdLog, "written")
    /\ LogConcat(fwdLog, "read") \o cdc_rx
          = [i \in 1..(nextHostByte - 1) |-> i]

\* A short write, a later notification whose bytes were written, and a
\* notification that read nothing.
C15_Witness ==
    /\ \E i, j \in 1..Len(fwdLog) :
          /\ i < j
          /\ fwdLog[i].written # <<>>
          /\ Len(fwdLog[i].written) < Len(fwdLog[i].read)
          /\ fwdLog[j].written # <<>>
    /\ \E k \in 1..Len(fwdLog) : fwdLog[k].read = <<>>

====
